---- MODULE Spec2Model ----
(***************************************************************************)
(* The MCP client (cli/client.py), the battle engine (model_battle.py) and *)
(* the executor of the tool server (server/server.py), as four             *)
(* specifications over one set of variables:                               *)
(*   Spec        main, chat_loop and process_query of the client           *)
(*   SpecBattle  battle and battle_round                                   *)
(*   SpecScore   score_response on its own                                 *)
(*   SpecServer  the single-worker executor and its callers                *)
(*                                                                         *)
(* A text is a sequence of string atoms; "\n".join and string formatting   *)
(* are modelled as concatenation of atom sequences.  The Chinese literals  *)
(* of the source are rendered in ASCII:                                    *)
(*   "API调用失败: "      -> "API call failed: "                           *)
(*   "工具调用失败: "     -> "tool call failed: "                          *)
(*   "获取最终响应失败"   -> "failed to get final response"                *)
(*   "工具调用完成: "     -> "tool calls completed: "                      *)
(*   "没有收到有效响应"   -> "no valid response received"                  *)
(*   "错误: "             -> "error: "                                     *)
(***************************************************************************)
EXTENDS Naturals, Sequences, FiniteSets, TLC

\* ------------------------------------------------------------------ bounds
MaxBatch == 2       \* longest tool-call batch the LLM returns

\* ------------------------------------------------------------------ texts
NL == "\n"
NoId == "<absent>"              \* a tool call that carries no id
unknown_id == "unknown_id"      \* default of getattr / dict.get

RECURSIVE JoinNL(_)
\* "\n".join(parts)
JoinNL(parts) ==
    IF parts = <<>> THEN <<>>
    ELSE IF Len(parts) = 1 THEN parts[1]
    ELSE parts[1] \o <<NL>> \o JoinNL(Tail(parts))

\* ------------------------------------------------------------ input domains
ToolNames == {"query_db", "read_file"}
CallIds == {"call_1", "call_2", NoId}
\* (tool name, id) combinations the LLM requests
Targets == {<<"query_db", "call_1">>, <<"read_file", "call_2">>, <<"read_file", NoId>>}
\* serialized argument payloads: a valid JSON string, an invalid JSON string,
\* and a payload that is already structured (not a str)
GoodJson == "{\"k\": 1}"
BadJson == "{k: 1"
StructArgs == "<dict>"
ArgPayloads == {GoodJson, BadJson, StructArgs}

\* the two payload shapes the code recognises, and anything else
Shapes == {"attr", "dict"}
KnownCalls == {tc \in [shape : Shapes, name : ToolNames, arguments : ArgPayloads, id : CallIds] :
                   <<tc.name, tc.id>> \in Targets}
OtherCall == [shape |-> "other", name |-> "", arguments |-> "", id |-> NoId]
ToolCalls == KnownCalls \cup {OtherCall}

Batches == UNION {[1..n -> ToolCalls] : n \in 1..MaxBatch}

\* message.content of a Gateway response: a str or a list of {text} items
StrContent(t) == [isList |-> FALSE, items |-> <<t>>]
ListContent(ts) == [isList |-> TRUE, items |-> ts]
Contents == {StrContent(<<>>), StrContent(<<"answer">>),
             ListContent(<< <<"part1">>, <<"part2">> >>)}

\* result of session.call_tool: content is a list of text items, or not
ToolOutputs == {ListContent(<< <<"row1">>, <<"row2">> >>), StrContent(<<"raw">>)}
ToolErrors == {"tool error"}
ApiMessages == {"quota exceeded", "invalid api key"}
JsonError == "JSONDecodeError"
Queries == {"q", "q2"}
\* the query typed first in a run of the client, and the queries typed after it
NextQueries(prev) == IF prev = "" THEN {"q"} ELSE {"q2"}
\* registry snapshots list_tools may return
ToolSnapshots == {{"query_db"}, ToolNames}

\* ------------------------------------------------------------------ state
VARIABLES
    pc,               \* position of main / chat_loop / process_query
    session,          \* self.session: "None", "Created", "Initialized" or "Closed"
    query,            \* chat_loop: the query being processed ("" before the first)
    messages,         \* process_query: the transcript
    available_tools,  \* process_query: tool schemas fetched for this query
    tool_calls,       \* process_query: batch of the first response
    idx,              \* process_query: position of the for loop (1-based)
    tool_results,     \* process_query: [{call, result}]
    final_text,       \* process_query: list of answer parts
    answer,           \* value returned by process_query
    raised,           \* exception leaving process_query ("" if none)
    printed,          \* what chat_loop printed for the current query
    gateway_calls,    \* history: transcript carried by every get_response call
    tool_invocations, \* history: every session.call_tool issued
    outcomes,         \* history: what each processed call of the batch yielded
    followup_calls,   \* history: tool calls requested by the follow-up response
    inflight          \* index of the call awaiting session.call_tool, else 0

\* state of the battle engine (model_battle.py)
VARIABLES
    bpc,              \* position of battle / battle_round
    models,           \* battle: the supplied model list
    num_rounds,       \* battle: the supplied round count
    round_num,        \* battle: loop variable of the round loop (0-based)
    responses,        \* battle_round: the ModelResponse list of the current round
    pending,          \* battle_round: positions whose answer call has not returned
    sp,               \* battle_round: position in the scoring loop (next pair)
    rounds,           \* battle: list of finished BattleRounds
    result,           \* battle: the BattleResult returned, once finished
    score_calls,      \* history: scoring calls of the current round: scorer, subject, error
    sleeps,           \* history: round numbers after which battle slept
    arrivals          \* history: answer calls of the current round, as they returned

\* state of one score_response call taken on its own
VARIABLES
    scoring_response, \* score_response: what call_model returned for the scorer
    score_result      \* score_response: the returned {score, comment}

\* state of the tool server's executor (server.py)
VARIABLES
    tasks             \* _executor: submitted tasks in submission order, with their callers

battle_vars == <<bpc, models, num_rounds, round_num, responses, pending, sp, rounds,
                 result, score_calls, sleeps, arrivals>>
score_vars == <<scoring_response, score_result>>
server_vars == <<tasks>>
outside_client == <<battle_vars, score_vars, server_vars>>

vars == <<pc, session, query, messages, available_tools, tool_calls, idx, tool_results,
          final_text, answer, raised, printed, gateway_calls, tool_invocations,
          outcomes, followup_calls, inflight>>

outside_battle == <<vars, score_vars, server_vars>>
outside_score == <<vars, battle_vars, server_vars>>
outside_server == <<vars, battle_vars, score_vars>>

locals == <<messages, available_tools, tool_calls, idx, tool_results, final_text>>
history == <<gateway_calls, tool_invocations, outcomes, followup_calls>>

\* ---------------------------------------------------------------- helpers
UserMessage(q) ==
    [role |-> "user", content |-> <<q>>, tool_calls |-> <<>>, tool_call_id |-> ""]

\* str(content) / "\n".join(item.text ...) of a response or tool result
ContentText(c) == IF c.isList THEN JoinNL(c.items) ELSE c.items[1]

\* isinstance(tool_args_str, str)
IsStr(a) == a # StructArgs

\* json.loads succeeds on the payload
JsonValid(a) == a = GoodJson

\* json.loads(tool_args_str) if it is a str, else the payload itself
JsonLoads(a) == IF a = GoodJson THEN "parsed{k:1}" ELSE a

\* tool_id = getattr(tool_call, 'id', 'unknown_id') / tool_call.get('id', 'unknown_id')
ToolId(tc) == IF tc.id = NoId THEN unknown_id ELSE tc.id

\* the request carried by the assistant message: the raw tool_call for the
\* object-attribute shape, a rebuilt mapping for the plain-mapping shape
CarriedCall(tc) ==
    IF tc.shape = "attr" THEN tc
    ELSE [shape |-> "dict", name |-> tc.name, arguments |-> tc.arguments, id |-> ToolId(tc)]

AssistantMessage(tc) ==
    [role |-> "assistant", content |-> <<>>, tool_calls |-> <<CarriedCall(tc)>>,
     tool_call_id |-> ""]

\* variant: the tool message is keyed by the placeholder instead of the call's id
ToolMessagePlaceholder(tc, content) ==
    [role |-> "tool", content |-> content, tool_calls |-> <<>>,
     tool_call_id |-> unknown_id]

ToolMessage(tc, content) ==
    [role |-> "tool", content |-> content, tool_calls |-> <<>>,
     tool_call_id |-> ToolId(tc)]

\* f"工具调用失败: {str(e)}"
FailureNote(e) == <<"tool call failed: ", e>>

RECURSIVE DumpResults(_)
\* json.dumps(tool_results, ...): the {call, result} pairs in list order
DumpResults(rs) ==
    IF rs = <<>> THEN <<>>
    ELSE <<"{call: ", rs[1].call, ", result: ">> \o rs[1].result \o <<"}">>
         \o DumpResults(Tail(rs))

\* variant: only the last part of final_text is returned
ReturnValueLast(ft) == IF ft # <<>> THEN ft[Len(ft)] ELSE <<"no valid response received">>

\* return "\n".join(final_text) if final_text else "没有收到有效响应"
ReturnValue(ft) == IF ft # <<>> THEN JoinNL(ft) ELSE <<"no valid response received">>


\* ------------------------------------------------------------ score_response
\* Scores are counted in tenths of a point (84 points = 840), so that the
\* fractional replies and the means used here are whole numbers.
\* The Chinese literals of model_battle.py are rendered in ASCII:
\*   "评分失败: "      -> "scoring failed: "
\*   "评分解析错误: "  -> "score parse error: "
\*   "无评价"          -> "no comment"
\*   "无获胜者"        -> "no winner"
\*   "API错误 (状态码: " -> "API error (status: "
\*   "调用失败: "      -> "call failed: "
CommentLimit == 100     \* response[:100]
MaxPad == 100           \* longest padding appended to an unstructured reply

\* replies of a scorer model, as character sequences
\* {"score": 84, "comment": "ok"}
ReplyObject ==
    <<"{", "\"", "s", "c", "o", "r", "e", "\"", ":", " ", "8", "4", ",", " ", "\"", "c", "o", "m", "m", "e", "n", "t", "\"", ":", " ", "\"", "o", "k", "\"", "}">>
\* {"score": 84}
ReplyNoComment ==
    <<"{", "\"", "s", "c", "o", "r", "e", "\"", ":", " ", "8", "4", "}">>
\* {"comment": "ok"}
ReplyNoScore ==
    <<"{", "\"", "c", "o", "m", "m", "e", "n", "t", "\"", ":", " ", "\"", "o", "k", "\"", "}">>
\* {"score": "high"}
ReplyBadScore ==
    <<"{", "\"", "s", "c", "o", "r", "e", "\"", ":", " ", "\"", "h", "i", "g", "h", "\"", "}">>
\* {"score": 150, "comment": "ok"}
ReplyOutOfRange ==
    <<"{", "\"", "s", "c", "o", "r", "e", "\"", ":", " ", "1", "5", "0", ",", " ", "\"", "c", "o", "m", "m", "e", "n", "t", "\"", ":", " ", "\"", "o", "k", "\"", "}">>
\* 78
ReplyBareNumber ==
    <<"7", "8">>
\* "about 78"
ReplyJsonString ==
    <<"\"", "a", "b", "o", "u", "t", " ", "7", "8", "\"">>
\* I'd say about 78 out of 100, solid work
ReplyProse ==
    <<"I", "'", "d", " ", "s", "a", "y", " ", "a", "b", "o", "u", "t", " ", "7", "8", " ", "o", "u", "t", " ", "o", "f", " ", "1", "0", "0", ",", " ", "s", "o", "l", "i", "d", " ", "w", "o", "r", "k">>
\* score: 7.5/10
ReplyFraction ==
    <<"s", "c", "o", "r", "e", ":", " ", "7", ".", "5", "/", "1", "0">>
\* no idea
ReplyNoNumber ==
    <<"n", "o", " ", "i", "d", "e", "a">>

\* an unstructured reply followed by n more characters
Padded(head, n) == head \o [i \in 1..n |-> "!"]
UnstructuredHeads == {ReplyProse, ReplyFraction, ReplyNoNumber, ReplyBareNumber}
ScorerReplies ==
    {ReplyObject, ReplyNoComment, ReplyNoScore, ReplyBadScore, ReplyBareNumber,
     ReplyJsonString, ReplyOutOfRange}
    \cup {Padded(h, n) : h \in UnstructuredHeads, n \in 0..MaxPad}
ScorerErrors == {"API error (status: 429): quota exceeded", "call failed: timeout"}

\* json.loads(scoring_response.response): "invalid" stands for JSONDecodeError,
\* "object" for a dict, "other" for any other JSON value (number, string)
ScoreJson(raw) ==
    CASE raw = ReplyObject ->
           [kind |-> "object", score |-> "number", value |-> 840,
            has_comment |-> TRUE, comment |-> <<"o", "k">>]
      [] raw = ReplyOutOfRange ->
           [kind |-> "object", score |-> "number", value |-> 1500,
            has_comment |-> TRUE, comment |-> <<"o", "k">>]
      [] raw = ReplyNoComment ->
           [kind |-> "object", score |-> "number", value |-> 840,
            has_comment |-> FALSE, comment |-> <<>>]
      [] raw = ReplyNoScore ->
           [kind |-> "object", score |-> "missing", value |-> 0,
            has_comment |-> TRUE, comment |-> <<"o", "k">>]
      [] raw = ReplyBadScore ->
           [kind |-> "object", score |-> "bad", value |-> 0,
            has_comment |-> FALSE, comment |-> <<>>]
      [] raw \in {ReplyBareNumber, ReplyJsonString} ->
           [kind |-> "other", score |-> "missing", value |-> 0,
            has_comment |-> FALSE, comment |-> <<>>]
      [] OTHER ->
           [kind |-> "invalid", score |-> "missing", value |-> 0,
            has_comment |-> FALSE, comment |-> <<>>]

Digits == {"0", "1", "2", "3", "4", "5", "6", "7", "8", "9"}
DigitVal(c) ==
    CASE c = "0" -> 0 [] c = "1" -> 1 [] c = "2" -> 2 [] c = "3" -> 3 [] c = "4" -> 4
      [] c = "5" -> 5 [] c = "6" -> 6 [] c = "7" -> 7 [] c = "8" -> 8 [] c = "9" -> 9

RECURSIVE NatOf(_)
\* int() of a run of digits
NatOf(ds) ==
    IF ds = <<>> THEN 0
    ELSE 10 * NatOf(SubSeq(ds, 1, Len(ds) - 1)) + DigitVal(ds[Len(ds)])

\* last position of the run of digits that starts at position i
RunEnd(t, i) ==
    CHOOSE j \in i..Len(t) :
        /\ \A k \in i..j : t[k] \in Digits
        /\ j = Len(t) \/ t[j + 1] \notin Digits

\* re.search(r'(\d+(?:\.\d+)?)', text): the leftmost run of digits, with a
\* fraction when a dot and a digit follow it
ReSearch(t) ==
    IF \A i \in 1..Len(t) : t[i] \notin Digits
    THEN [found |-> FALSE, whole |-> <<>>, frac |-> <<>>]
    ELSE LET i == CHOOSE k \in 1..Len(t) :
                      t[k] \in Digits /\ \A h \in 1..(k - 1) : t[h] \notin Digits
             j == RunEnd(t, i)
             hasFrac == j + 2 <= Len(t) /\ t[j + 1] = "." /\ t[j + 2] \in Digits
         IN [found |-> TRUE,
             whole |-> SubSeq(t, i, j),
             frac |-> IF hasFrac THEN SubSeq(t, j + 2, RunEnd(t, j + 2)) ELSE <<>>]

\* float(score_match.group(1)), in tenths (replies carry at most one decimal)
Float(m) == 10 * NatOf(m.whole) + (IF m.frac = <<>> THEN 0 ELSE DigitVal(m.frac[1]))

\* variant: the excerpt is cut to the limit and nothing is appended
ExcerptCut(raw) ==
    IF Len(raw) > CommentLimit THEN SubSeq(raw, 1, CommentLimit) ELSE raw

\* response[:100] + "..." if len(response) > 100 else response
Excerpt(raw) ==
    IF Len(raw) > CommentLimit
    THEN SubSeq(raw, 1, CommentLimit) \o <<".", ".", ".">>
    ELSE raw

\* the except json.JSONDecodeError branch
Fallback(raw) ==
    LET m == ReSearch(raw)
    IN [done |-> TRUE, score |-> IF m.found THEN Float(m) ELSE 0, comment |-> Excerpt(raw)]

\* score_response, given what call_model returned for the scorer
score_response(sr) ==
    IF sr.error # ""
    THEN [done |-> TRUE, score |-> 0, comment |-> <<"scoring failed: ", sr.error>>]
    ELSE LET js == ScoreJson(sr.response)
         IN CASE js.kind = "invalid" -> Fallback(sr.response)
              [] js.kind = "other" ->
                   [done |-> TRUE, score |-> 0,
                    comment |-> <<"score parse error: ", "AttributeError">>]
              [] js.kind = "object" /\ js.score = "bad" ->
                   [done |-> TRUE, score |-> 0,
                    comment |-> <<"score parse error: ", "ValueError">>]
              [] OTHER ->
                   [done |-> TRUE,
                    score |-> IF js.score = "number" THEN js.value ELSE 0,
                    comment |-> IF js.has_comment THEN js.comment ELSE <<"no comment">>]

\* what call_model returns to score_response: an error, or a reply text
ScoringResponses ==
    {[error |-> e, response |-> <<>>] : e \in ScorerErrors}
    \cup {[error |-> "", response |-> r] : r \in ScorerReplies}

NoScore == [done |-> FALSE, score |-> 0, comment |-> <<>>]

ScoreIdle ==
    /\ scoring_response = [error |-> "", response |-> <<>>]
    /\ score_result = NoScore

\* ------------------------------------------------------------ battle engine
MaxRounds == 2          \* largest round count a caller supplies
MaxAnswerCalls == 6     \* most answer calls (models x rounds) of one battle
DefaultRounds == 2      \* num_rounds: int = 2

\* ModelType values
ModelTypes == {"qwen-audio-turbo-latest", "qwen-vl-max", "qwen-turbo", "qwen-max"}
\* model lists handed to battle
ModelLists ==
    {<<>>, <<"qwen-turbo">>, <<"qwen-turbo", "qwen-max">>, <<"qwen-max", "qwen-turbo">>,
     <<"qwen-max", "qwen-max">>, <<"qwen-turbo", "qwen-max", "qwen-vl-max">>}
\* model name lists handed to execute_battle_sync
NameLists ==
    {<<"qwen-turbo", "qwen-max">>, <<"qwen-max", "qwen-max">>, <<"gpt-4">>,
     <<"qwen-max", "gpt-4">>}

\* execute_battle_sync: names to ModelType, unsupported names skipped
model_types(names) == SelectSeq(names, LAMBDA n : n \in ModelTypes)

EmptyScores == [n \in {} |-> [score |-> 0, comment |-> <<>>]]

\* outcomes of one Generation.call of the answer phase
CallOutcomes == {"ok", "non200", "raise"}
\* the answer text a model gives in a round
AnswerText(m, r) == <<m, " answers in round ", ToString(r)>>

\* call_dashscope_model: always returns a ModelResponse
call_dashscope_model(m, outcome, text) ==
    CASE outcome = "ok" ->
           [model_name |-> m, response |-> text, error |-> "", scores |-> EmptyScores]
      [] outcome = "non200" ->
           [model_name |-> m, response |-> <<>>,
            error |-> "API error (status: 429): quota exceeded", scores |-> EmptyScores]
      [] OTHER ->
           [model_name |-> m, response |-> <<>>,
            error |-> "call failed: timeout", scores |-> EmptyScores]

\* what call_model returns to score_response inside a battle
BattleScoring ==
    {[error |-> "call failed: timeout", response |-> <<>>],
     [error |-> "", response |-> ReplyObject]}

\* what a scorer of the list ms may return: in a battle of two models a scorer
\* may also reply with a score above the rubric's range
BattleScoringFor(ms) ==
    IF Len(ms) = 2
    THEN BattleScoring \cup {[error |-> "", response |-> ReplyOutOfRange]}
    ELSE BattleScoring

\* valid_responses = [r for r in responses if not r.error]
valid_responses(resps) == SelectSeq(resps, LAMBDA r : r.error = "")

\* variant: a model whose own answer errored is not asked to score
PairsValidScorers(resps) ==
    LET n == Len(resps)
        all == [k \in 1..(n * n) |-> <<((k - 1) \div n) + 1, ((k - 1) % n) + 1>>]
    IN SelectSeq(all, LAMBDA pr : /\ resps[pr[1]].error = ""
                                  /\ pr[1] # pr[2]
                                  /\ resps[pr[2]].error = "")

\* the (i, j) pairs of the scoring loops in loop order: subject i error-free, j # i
Pairs(resps) ==
    LET n == Len(resps)
        all == [k \in 1..(n * n) |-> <<((k - 1) \div n) + 1, ((k - 1) % n) + 1>>]
    IN SelectSeq(all, LAMBDA pr : resps[pr[1]].error = "" /\ pr[1] # pr[2])

\* d[key] = value
Put(d, key, value) ==
    [k \in DOMAIN d \cup {key} |-> IF k = key THEN value ELSE d[k]]

RECURSIVE SumScores(_, _)
\* sum(score_result["score"] for score_result in scores.values())
SumScores(d, keys) ==
    IF keys = {} THEN 0
    ELSE LET k == CHOOSE x \in keys : TRUE
         IN d[k].score + SumScores(d, keys \ {k})

\* variant: the scores are added up, not averaged
MeanAsSum(d) == SumScores(d, DOMAIN d)

\* sum(scores) / len(scores)
Mean(d) == SumScores(d, DOMAIN d) \div Cardinality(DOMAIN d)

\* the names of a response list
NamesOf(resps) == {resps[i].model_name : i \in 1..Len(resps)}

\* the response whose entry for name n is written last
LastOf(resps, n) ==
    resps[CHOOSE i \in 1..Len(resps) :
            resps[i].model_name = n /\ \A j \in (i + 1)..Len(resps) : resps[j].model_name # n]

\* variant: scoring is skipped and zeros returned only when no answer is valid
TooFewValidNone(resps) == Len(valid_responses(resps)) < 1

\* if len(valid_responses) < 2
TooFewValid(resps) == Len(valid_responses(resps)) < 2

\* round_scores = {r.model_name: 0 for r in responses}
ZeroScores(resps) == [n \in NamesOf(resps) |-> 0]

\* the loop that fills round_scores after the scoring phase
RoundScores(resps) ==
    [n \in NamesOf(resps) |->
        LET r == LastOf(resps, n)
        IN IF r.error = "" /\ DOMAIN r.scores # {} THEN Mean(r.scores) ELSE 0]

RECURSIVE SumSeq(_)
\* sum(scores)
SumSeq(xs) == IF xs = <<>> THEN 0 ELSE xs[1] + SumSeq(Tail(xs))

\* variant: the final score is the mean of the round scores
FinalScoresMean(ms, rs) ==
    [n \in {ms[i] : i \in 1..Len(ms)} |->
        IF rs = <<>> THEN 0
        ELSE SumSeq([r \in 1..Len(rs) |->
                 IF n \in DOMAIN rs[r].scores THEN rs[r].scores[n] ELSE 0]) \div Len(rs)]

\* final_scores[model_name] = sum(round_result.scores.get(model_name, 0) ...)
FinalScores(ms, rs) ==
    [n \in {ms[i] : i \in 1..Len(ms)} |->
        SumSeq([r \in 1..Len(rs) |->
                 IF n \in DOMAIN rs[r].scores THEN rs[r].scores[n] ELSE 0])]

\* keys of final_scores in insertion order: first occurrences in the model list
DictKeys(ms) ==
    LET firsts == SelectSeq([i \in 1..Len(ms) |-> i],
                            LAMBDA i : \A j \in 1..(i - 1) : ms[j] # ms[i])
    IN [k \in 1..Len(firsts) |-> ms[firsts[k]]]

RECURSIVE MaxLast(_, _)
\* variant: a later key with an equal score replaces the best so far
MaxLast(keys, fs) ==
    IF Len(keys) = 1 THEN keys[1]
    ELSE LET best == MaxLast(SubSeq(keys, 1, Len(keys) - 1), fs)
             last == keys[Len(keys)]
         IN IF fs[last] >= fs[best] THEN last ELSE best

RECURSIVE MaxFirst(_, _)
\* max(final_scores.items(), key=lambda x: x[1])[0]: the first maximum
MaxFirst(keys, fs) ==
    IF Len(keys) = 1 THEN keys[1]
    ELSE LET best == MaxFirst(SubSeq(keys, 1, Len(keys) - 1), fs)
             last == keys[Len(keys)]
         IN IF fs[last] > fs[best] THEN last ELSE best

NoWinner == "no winner"

Winner(ms, fs) == IF ms = <<>> THEN NoWinner ELSE MaxFirst(DictKeys(ms), fs)

\* the loop over round.responses that picks final_answer
AnswerIn(round, winner) ==
    LET hits == SelectSeq(round.responses,
                          LAMBDA r : r.model_name = winner /\ r.error = "")
    IN IF hits = <<>> THEN <<>> ELSE hits[1].response

\* variant: the answer is taken from the first round
FinalAnswerFirst(rs, winner) == AnswerIn(rs[1], winner)

\* for response in rounds[-1].responses: ...
FinalAnswer(rs, winner) == AnswerIn(rs[Len(rs)], winner)

NoResult ==
    [done |-> FALSE, rounds |-> <<>>, final_scores |-> [n \in {} |-> 0],
     final_winner |-> "", final_answer |-> <<>>]

BattleIdle ==
    /\ bpc = "Idle"
    /\ models = <<>>
    /\ num_rounds = 0
    /\ round_num = 0
    /\ responses = <<>>
    /\ pending = {}
    /\ sp = 0
    /\ rounds = <<>>
    /\ result = NoResult
    /\ score_calls = <<>>
    /\ sleeps = {}
    /\ arrivals = <<>>

\* ------------------------------------------------------------------- Init
\* client = MCPClient() in main: no session yet, nothing processed
ClientIdle ==
    /\ pc = "Main"
    /\ session = "None"
    /\ query = ""
    /\ messages = <<>>
    /\ available_tools = {}
    /\ tool_calls = <<>>
    /\ idx = 0
    /\ tool_results = <<>>
    /\ final_text = <<>>
    /\ answer = <<>>
    /\ raised = ""
    /\ printed = <<>>
    /\ gateway_calls = <<>>
    /\ tool_invocations = <<>>
    /\ outcomes = <<>>
    /\ followup_calls = <<>>
    /\ inflight = 0

ServerIdle == tasks = <<>>

Init == ClientIdle /\ BattleIdle /\ ScoreIdle /\ ServerIdle

\* ---------------------------------------------------------------- actions
\* everything of the client but pc and session
client_data == <<query, messages, available_tools, tool_calls, idx, tool_results,
                 final_text, answer, raised, printed, gateway_calls, tool_invocations,
                 outcomes, followup_calls, inflight>>

\* main's finally: cleanup closes the exit stack and the client ends; nothing
\* of the queries it processed is left
Exit ==
    /\ pc' = "Exited"
    /\ session' = IF session = "None" THEN "None" ELSE "Closed"
    /\ query' = ""
    /\ messages' = <<>>
    /\ available_tools' = {}
    /\ tool_calls' = <<>>
    /\ idx' = 0
    /\ tool_results' = <<>>
    /\ final_text' = <<>>
    /\ answer' = <<>>
    /\ raised' = ""
    /\ printed' = <<>>
    /\ gateway_calls' = <<>>
    /\ tool_invocations' = <<>>
    /\ outcomes' = <<>>
    /\ followup_calls' = <<>>
    /\ inflight' = 0
    /\ UNCHANGED outside_client

\* connect_to_server: the script path is neither .py nor .js, or the stdio
\* transport or the ClientSession cannot be entered
ConnectFails ==
    /\ pc = "Main"
    /\ Exit

\* connect_to_server: transport entered, self.session = ClientSession(...)
ConnectSession ==
    /\ pc = "Main"
    /\ session' = "Created"
    /\ pc' = "Initialize"
    /\ UNCHANGED client_data
    /\ UNCHANGED outside_client

\* await self.session.initialize() returns
InitializeOk ==
    /\ pc = "Initialize"
    /\ session' = "Initialized"
    /\ pc' = "ConnectList"
    /\ UNCHANGED client_data
    /\ UNCHANGED outside_client

\* variant: a failed handshake is ignored and the client goes on
InitializeFailsIgnored ==
    /\ pc = "Initialize"
    /\ pc' = "ConnectList"
    /\ UNCHANGED session
    /\ UNCHANGED client_data
    /\ UNCHANGED outside_client

\* await self.session.initialize() raises: the exception leaves main
InitializeFails ==
    /\ pc = "Initialize"
    /\ Exit

\* connect_to_server: await self.session.list_tools() returns, chat_loop starts
ConnectListOk ==
    /\ pc = "ConnectList"
    /\ pc' = "Idle"
    /\ UNCHANGED session
    /\ UNCHANGED client_data
    /\ UNCHANGED outside_client

\* connect_to_server: list_tools raises: the exception leaves main
ConnectListFails ==
    /\ pc = "ConnectList"
    /\ Exit

\* chat_loop: the user types quit
Quit ==
    /\ pc = "Idle"
    /\ Exit

\* variant: the transcript, the tool results and the answer parts live on the
\* client and are kept from one query to the next
StartQueryKeeps ==
    /\ pc = "Idle"
    /\ \E q \in NextQueries(query) :
         /\ query' = q
         /\ messages' = Append(messages, UserMessage(q))
    /\ available_tools' = {}
    /\ tool_calls' = <<>>
    /\ idx' = 0
    /\ answer' = <<>>
    /\ raised' = ""
    /\ gateway_calls' = <<>>
    /\ tool_invocations' = <<>>
    /\ outcomes' = <<>>
    /\ followup_calls' = <<>>
    /\ inflight' = 0
    /\ printed' = <<>>
    /\ pc' = "GetTools"
    /\ UNCHANGED <<session, tool_results, final_text>>
    /\ UNCHANGED outside_client

\* chat_loop reads a query and calls process_query, which seeds the transcript
StartQuery ==
    /\ pc = "Idle"
    /\ \E q \in NextQueries(query) :
         /\ query' = q
         /\ messages' = <<UserMessage(q)>>
    /\ available_tools' = {}
    /\ tool_calls' = <<>>
    /\ idx' = 0
    /\ tool_results' = <<>>
    /\ final_text' = <<>>
    /\ answer' = <<>>
    /\ raised' = ""
    /\ gateway_calls' = <<>>
    /\ tool_invocations' = <<>>
    /\ outcomes' = <<>>
    /\ followup_calls' = <<>>
    /\ inflight' = 0
    /\ printed' = <<>>
    /\ pc' = "GetTools"
    /\ UNCHANGED session
    /\ UNCHANGED outside_client

\* available_tools = await self.get_tools()   -- succeeds
GetToolsOk ==
    /\ pc = "GetTools"
    /\ \E snap \in ToolSnapshots : available_tools' = snap
    /\ pc' = "Query"
    /\ UNCHANGED <<messages, tool_calls, idx, tool_results, final_text,
                   answer, raised, printed, inflight>>
    /\ UNCHANGED history
    /\ UNCHANGED <<session, query>>
    /\ UNCHANGED outside_client

\* session.list_tools() raises: the exception leaves process_query
GetToolsFail ==
    /\ pc = "GetTools"
    /\ raised' = "TransportError"
    /\ pc' = "Raised"
    /\ UNCHANGED <<answer, printed, inflight>>
    /\ UNCHANGED locals
    /\ UNCHANGED history
    /\ UNCHANGED <<session, query>>
    /\ UNCHANGED outside_client

\* get_response(messages, available_tools) is called and ends with outcome
\* "200", "non200" (with response.message msg) or "raise"
IssueGateway(outcome, msg) ==
    gateway_calls' = Append(gateway_calls,
        [messages |-> messages, tools |-> available_tools,
         outcome |-> outcome, message |-> msg])

\* first get_response raises (get_response re-raises, process_query has no handler)
FirstGatewayRaise ==
    /\ pc = "Query"
    /\ IssueGateway("raise", "")
    /\ raised' = "ApiException"
    /\ pc' = "Raised"
    /\ UNCHANGED <<answer, printed, inflight>>
    /\ UNCHANGED locals
    /\ UNCHANGED <<tool_invocations, outcomes, followup_calls>>
    /\ UNCHANGED <<session, query>>
    /\ UNCHANGED outside_client

\* variant: the status of the first response is not checked
FirstGatewayNon200Unchecked ==
    /\ pc = "Query"
    /\ \E m \in ApiMessages : IssueGateway("non200", m)
    /\ \E b \in Batches : tool_calls' = b
    /\ idx' = 1
    /\ pc' = "Batch"
    /\ UNCHANGED <<messages, available_tools, tool_results, final_text,
                   answer, raised, printed, inflight>>
    /\ UNCHANGED <<tool_invocations, outcomes, followup_calls>>
    /\ UNCHANGED <<session, query>>
    /\ UNCHANGED outside_client

\* first response has status_code != 200: return f"API调用失败: {response.message}"
FirstGatewayNon200 ==
    /\ pc = "Query"
    /\ \E m \in ApiMessages :
         /\ IssueGateway("non200", m)
         /\ answer' = <<"API call failed: ", m>>
    /\ pc' = "Returned"
    /\ UNCHANGED <<raised, printed, inflight>>
    /\ UNCHANGED locals
    /\ UNCHANGED <<tool_invocations, outcomes, followup_calls>>
    /\ UNCHANGED <<session, query>>
    /\ UNCHANGED outside_client

\* variant: the plain answer is also appended to the transcript
FirstGatewayPlainRecorded ==
    /\ pc = "Query"
    /\ IssueGateway("200", "")
    /\ \E c \in Contents :
         /\ final_text' = Append(final_text, ContentText(c))
         /\ answer' = ReturnValue(Append(final_text, ContentText(c)))
         /\ messages' = Append(messages,
                [role |-> "assistant", content |-> ContentText(c), tool_calls |-> <<>>,
                 tool_call_id |-> ""])
    /\ pc' = "Returned"
    /\ UNCHANGED <<available_tools, tool_calls, idx, tool_results,
                   raised, printed, inflight>>
    /\ UNCHANGED <<tool_invocations, outcomes, followup_calls>>
    /\ UNCHANGED <<session, query>>
    /\ UNCHANGED outside_client

\* first response is 200 with no (or empty) tool_calls: the else branch
FirstGatewayPlain ==
    /\ pc = "Query"
    /\ IssueGateway("200", "")
    /\ \E c \in Contents :
         /\ final_text' = Append(final_text, ContentText(c))
         /\ answer' = ReturnValue(Append(final_text, ContentText(c)))
    /\ pc' = "Returned"
    /\ UNCHANGED <<messages, available_tools, tool_calls, idx, tool_results,
                   raised, printed, inflight>>
    /\ UNCHANGED <<tool_invocations, outcomes, followup_calls>>
    /\ UNCHANGED <<session, query>>
    /\ UNCHANGED outside_client

\* first response is 200 with a non-empty batch of tool calls
FirstGatewayToolCalls ==
    /\ pc = "Query"
    /\ IssueGateway("200", "")
    /\ \E b \in Batches : tool_calls' = b
    /\ idx' = 1
    /\ pc' = "Batch"
    /\ UNCHANGED <<messages, available_tools, tool_results, final_text,
                   answer, raised, printed, inflight>>
    /\ UNCHANGED <<tool_invocations, outcomes, followup_calls>>
    /\ UNCHANGED <<session, query>>
    /\ UNCHANGED outside_client

InBatch == pc = "Batch" /\ idx \in 1..Len(tool_calls)

\* history: call idx ended with a tool result (text = what the tool returned),
\* a failure note (text = the exception message) or nothing at all ("dropped")
Record(kind, text) ==
    outcomes' = Append(outcomes, [idx |-> idx, kind |-> kind, text |-> text])

\* tool_call is neither shape: print and continue
SkipUnknown ==
    /\ InBatch
    /\ tool_calls[idx].shape \notin Shapes
    /\ idx' = idx + 1
    /\ Record("dropped", <<>>)
    /\ UNCHANGED <<pc, messages, available_tools, tool_calls, tool_results,
                   final_text, answer, raised, printed, inflight>>
    /\ UNCHANGED <<gateway_calls, tool_invocations, followup_calls>>
    /\ UNCHANGED <<session, query>>
    /\ UNCHANGED outside_client

\* variant: a parse failure leaves the loop instead of continuing
ParseFailAbort ==
    /\ InBatch
    /\ tool_calls[idx].shape \in Shapes
    /\ IsStr(tool_calls[idx].arguments) /\ ~JsonValid(tool_calls[idx].arguments)
    /\ final_text' = Append(final_text, FailureNote(JsonError))
    /\ Record("note", <<JsonError>>)
    /\ idx' = Len(tool_calls) + 1
    /\ UNCHANGED <<pc, messages, available_tools, tool_calls, tool_results,
                   answer, raised, printed, inflight>>
    /\ UNCHANGED <<gateway_calls, tool_invocations, followup_calls>>
    /\ UNCHANGED <<session, query>>
    /\ UNCHANGED outside_client

\* json.loads raises: the except branch records a failure note and continues
ParseFail ==
    /\ InBatch
    /\ tool_calls[idx].shape \in Shapes
    /\ IsStr(tool_calls[idx].arguments) /\ ~JsonValid(tool_calls[idx].arguments)
    /\ final_text' = Append(final_text, FailureNote(JsonError))
    /\ Record("note", <<JsonError>>)
    /\ idx' = idx + 1
    /\ UNCHANGED <<pc, messages, available_tools, tool_calls, tool_results,
                   answer, raised, printed, inflight>>
    /\ UNCHANGED <<gateway_calls, tool_invocations, followup_calls>>
    /\ UNCHANGED <<session, query>>
    /\ UNCHANGED outside_client

\* variant: call_tool is started and the loop moves on without awaiting it
DispatchNoAwait ==
    /\ InBatch
    /\ tool_calls[idx].shape \in Shapes
    /\ IsStr(tool_calls[idx].arguments) => JsonValid(tool_calls[idx].arguments)
    /\ tool_invocations' = Append(tool_invocations,
           [idx |-> idx, name |-> tool_calls[idx].name,
            args |-> JsonLoads(tool_calls[idx].arguments)])
    /\ inflight' = idx
    /\ idx' = idx + 1
    /\ UNCHANGED <<pc, messages, available_tools, tool_calls, tool_results, final_text,
                   answer, raised, printed>>
    /\ UNCHANGED <<gateway_calls, outcomes, followup_calls>>
    /\ UNCHANGED <<session, query>>
    /\ UNCHANGED outside_client

\* arguments parsed: await self.session.call_tool(tool_name, tool_args)
Dispatch ==
    /\ InBatch
    /\ tool_calls[idx].shape \in Shapes
    /\ IsStr(tool_calls[idx].arguments) => JsonValid(tool_calls[idx].arguments)
    /\ tool_invocations' = Append(tool_invocations,
           [idx |-> idx, name |-> tool_calls[idx].name,
            args |-> JsonLoads(tool_calls[idx].arguments)])
    /\ inflight' = idx
    /\ pc' = "AwaitTool"
    /\ UNCHANGED <<answer, raised, printed>>
    /\ UNCHANGED locals
    /\ UNCHANGED <<gateway_calls, outcomes, followup_calls>>
    /\ UNCHANGED <<session, query>>
    /\ UNCHANGED outside_client

\* call_tool returned: record the result and append the message pair
ToolReturn ==
    /\ pc = "AwaitTool"
    /\ \E r \in ToolOutputs :
         LET content == ContentText(r)
             tc == tool_calls[idx]
         IN /\ tool_results' = Append(tool_results, [call |-> tc.name, result |-> content])
            /\ messages' = messages \o <<AssistantMessage(tc), ToolMessage(tc, content)>>
            /\ Record("result", content)
    /\ idx' = idx + 1
    /\ inflight' = 0
    /\ pc' = "Batch"
    /\ UNCHANGED <<available_tools, tool_calls, final_text, answer, raised, printed>>
    /\ UNCHANGED <<gateway_calls, tool_invocations, followup_calls>>
    /\ UNCHANGED <<session, query>>
    /\ UNCHANGED outside_client

\* variant: the failure is also appended to the transcript as a tool message
ToolRaiseReported ==
    /\ pc = "AwaitTool"
    /\ \E e \in ToolErrors :
         /\ final_text' = Append(final_text, FailureNote(e))
         /\ messages' = messages \o <<AssistantMessage(tool_calls[idx]),
                                       ToolMessage(tool_calls[idx], FailureNote(e))>>
         /\ Record("note", <<e>>)
    /\ idx' = idx + 1
    /\ inflight' = 0
    /\ pc' = "Batch"
    /\ UNCHANGED <<available_tools, tool_calls, tool_results, answer, raised, printed>>
    /\ UNCHANGED <<gateway_calls, tool_invocations, followup_calls>>
    /\ UNCHANGED <<session, query>>
    /\ UNCHANGED outside_client

\* call_tool raised: the except branch records a failure note and continues
ToolRaise ==
    /\ pc = "AwaitTool"
    /\ \E e \in ToolErrors :
         /\ final_text' = Append(final_text, FailureNote(e))
         /\ Record("note", <<e>>)
    /\ idx' = idx + 1
    /\ inflight' = 0
    /\ pc' = "Batch"
    /\ UNCHANGED <<messages, available_tools, tool_calls, tool_results,
                   answer, raised, printed>>
    /\ UNCHANGED <<gateway_calls, tool_invocations, followup_calls>>
    /\ UNCHANGED <<session, query>>
    /\ UNCHANGED outside_client

\* variant: the loop is considered over after its first iteration
BatchDoneEarly == pc = "Batch" /\ idx > 1

BatchDone == pc = "Batch" /\ idx > Len(tool_calls)

\* the follow-up response may itself request tool calls; the code never reads them
FollowUpRequests == {<<>>} \cup {<<tc>> : tc \in {t \in KnownCalls :
                         t.shape = "attr" /\ t.arguments = GoodJson /\ t.id = "call_2"}}

\* variant: the outcome of the follow-up call replaces what final_text held
FinishAlone(part) ==
    /\ final_text' = <<part>>
    /\ answer' = ReturnValue(<<part>>)
    /\ pc' = "Returned"

\* returns with part appended to final_text
Finish(part) ==
    /\ final_text' = Append(final_text, part)
    /\ answer' = ReturnValue(Append(final_text, part))
    /\ pc' = "Returned"

\* variant: tool calls requested by the follow-up response start another round
FollowUpOkLoop ==
    /\ BatchDone
    /\ tool_results # <<>>
    /\ IssueGateway("200", "")
    /\ \E c \in Contents, f \in FollowUpRequests :
         /\ f # <<>> => c = StrContent(<<>>)
         /\ followup_calls' = f
         /\ IF f # <<>>
            THEN /\ tool_calls' = f
                 /\ idx' = 1
                 /\ UNCHANGED <<pc, final_text, answer>>
            ELSE /\ Finish(ContentText(c))
                 /\ UNCHANGED <<tool_calls, idx>>
    /\ UNCHANGED <<messages, available_tools, tool_results, raised, printed, inflight>>
    /\ UNCHANGED <<tool_invocations, outcomes>>
    /\ UNCHANGED <<session, query>>
    /\ UNCHANGED outside_client

\* if tool_results: follow-up get_response returns 200
FollowUpOk ==
    /\ BatchDone
    /\ tool_results # <<>>
    /\ IssueGateway("200", "")
    /\ \E c \in Contents, f \in FollowUpRequests :
         /\ f # <<>> => c = StrContent(<<>>)
         /\ Finish(ContentText(c))
         /\ followup_calls' = f
    /\ UNCHANGED <<messages, available_tools, tool_calls, idx, tool_results,
                   raised, printed, inflight>>
    /\ UNCHANGED <<tool_invocations, outcomes>>
    /\ UNCHANGED <<session, query>>
    /\ UNCHANGED outside_client

\* follow-up get_response returns a non-200 status
FollowUpNon200 ==
    /\ BatchDone
    /\ tool_results # <<>>
    /\ \E m \in ApiMessages : IssueGateway("non200", m)
    /\ Finish(<<"failed to get final response">>)
    /\ UNCHANGED <<messages, available_tools, tool_calls, idx, tool_results,
                   raised, printed, inflight>>
    /\ UNCHANGED <<tool_invocations, outcomes, followup_calls>>
    /\ UNCHANGED <<session, query>>
    /\ UNCHANGED outside_client

\* variant: the follow-up call is not wrapped in try/except
FollowUpRaisePropagates ==
    /\ BatchDone
    /\ tool_results # <<>>
    /\ IssueGateway("raise", "")
    /\ raised' = "ApiException"
    /\ pc' = "Raised"
    /\ UNCHANGED <<answer, printed, inflight>>
    /\ UNCHANGED locals
    /\ UNCHANGED <<tool_invocations, outcomes, followup_calls>>
    /\ UNCHANGED <<session, query>>
    /\ UNCHANGED outside_client

\* follow-up get_response raises: fall back to the listing of tool results
FollowUpRaise ==
    /\ BatchDone
    /\ tool_results # <<>>
    /\ IssueGateway("raise", "")
    /\ Finish(<<"tool calls completed: ">> \o DumpResults(tool_results))
    /\ UNCHANGED <<messages, available_tools, tool_calls, idx, tool_results,
                   raised, printed, inflight>>
    /\ UNCHANGED <<tool_invocations, outcomes, followup_calls>>
    /\ UNCHANGED <<session, query>>
    /\ UNCHANGED outside_client

\* no call succeeded: return what final_text holds
ReturnNoResults ==
    /\ BatchDone
    /\ tool_results = <<>>
    /\ answer' = ReturnValue(final_text)
    /\ pc' = "Returned"
    /\ UNCHANGED <<raised, printed, inflight>>
    /\ UNCHANGED locals
    /\ UNCHANGED history
    /\ UNCHANGED <<session, query>>
    /\ UNCHANGED outside_client

\* chat_loop: print("\n" + response)
ChatLoopPrint ==
    /\ pc = "Returned"
    /\ printed' = <<NL>> \o answer
    /\ pc' = "Idle"
    /\ UNCHANGED <<answer, raised, inflight>>
    /\ UNCHANGED locals
    /\ UNCHANGED history
    /\ UNCHANGED <<session, query>>
    /\ UNCHANGED outside_client

\* chat_loop: except Exception as e: print(f"\n错误: {str(e)}")
ChatLoopCatch ==
    /\ pc = "Raised"
    /\ printed' = <<NL, "error: ", raised>>
    /\ pc' = "Idle"
    /\ UNCHANGED <<answer, raised, inflight>>
    /\ UNCHANGED locals
    /\ UNCHANGED history
    /\ UNCHANGED <<session, query>>
    /\ UNCHANGED outside_client

Next ==
    \/ ConnectFails
    \/ ConnectSession
    \/ InitializeOk
    \/ InitializeFails
    \/ ConnectListOk
    \/ ConnectListFails
    \/ Quit
    \/ StartQuery
    \/ GetToolsOk
    \/ GetToolsFail
    \/ FirstGatewayRaise
    \/ FirstGatewayNon200
    \/ FirstGatewayPlain
    \/ FirstGatewayToolCalls
    \/ SkipUnknown
    \/ ParseFail
    \/ Dispatch
    \/ ToolReturn
    \/ ToolRaise
    \/ FollowUpOk
    \/ FollowUpNon200
    \/ FollowUpRaise
    \/ ReturnNoResults
    \/ ChatLoopPrint
    \/ ChatLoopCatch

Spec == Init /\ [][Next]_vars

\* ------------------------------------------------------ battle engine actions
\* the placeholders of a round whose answer calls are all outstanding
Outstanding(ms) ==
    [i \in 1..Len(ms) |->
        [model_name |-> ms[i], response |-> <<>>, error |-> "", scores |-> EmptyScores]]

\* battle(question, ms, n) is entered; the first battle_round starts if n > 0
Enter(ms, n) ==
    /\ models' = ms
    /\ num_rounds' = n
    /\ round_num' = 0
    /\ rounds' = <<>>
    /\ result' = NoResult
    /\ score_calls' = <<>>
    /\ sleeps' = {}
    /\ arrivals' = <<>>
    /\ sp' = 0
    /\ IF n > 0
       THEN /\ responses' = Outstanding(ms)
            /\ pending' = 1..Len(ms)
            /\ bpc' = "Answer"
       ELSE /\ responses' = <<>>
            /\ pending' = {}
            /\ bpc' = "Finalize"

\* a caller runs battle(question, models, num_rounds)
StartBattle ==
    /\ bpc = "Idle"
    /\ \E ms \in ModelLists, n \in 0..MaxRounds :
         /\ Len(ms) * n <= MaxAnswerCalls
         /\ Enter(ms, n)
    /\ UNCHANGED outside_battle

\* execute_battle_sync runs battle on the supported names, default round count
StartBattleFromServer ==
    /\ bpc = "Idle"
    /\ \E names \in NameLists :
         /\ model_types(names) # <<>>
         /\ Enter(model_types(names), DefaultRounds)
    /\ UNCHANGED outside_battle

\* execute_battle_sync: no supported model, battle is not run
ServerRejects ==
    /\ bpc = "Idle"
    /\ \E names \in NameLists : model_types(names) = <<>>
    /\ bpc' = "Rejected"
    /\ UNCHANGED <<models, num_rounds, round_num, responses, pending, sp, rounds,
                   result, score_calls, sleeps, arrivals>>
    /\ UNCHANGED outside_battle

\* variant: the responses are listed in the order the calls return
AnswerArrivesInOrder ==
    /\ bpc = "Answer"
    /\ \E i \in pending, outcome \in CallOutcomes :
         /\ responses' = [responses EXCEPT ![Len(arrivals) + 1] =
                call_dashscope_model(models[i], outcome, AnswerText(models[i], round_num + 1))]
         /\ pending' = pending \ {i}
         /\ arrivals' = Append(arrivals, <<i, outcome>>)
    /\ UNCHANGED <<bpc, models, num_rounds, round_num, sp, rounds, result,
                   score_calls, sleeps>>
    /\ UNCHANGED outside_battle

\* one call_model of the gather returns
AnswerArrives ==
    /\ bpc = "Answer"
    /\ \E i \in pending, outcome \in CallOutcomes :
         /\ responses' = [responses EXCEPT ![i] =
                call_dashscope_model(models[i], outcome, AnswerText(models[i], round_num + 1))]
         /\ pending' = pending \ {i}
         /\ arrivals' = Append(arrivals, <<i, outcome>>)
    /\ UNCHANGED <<bpc, models, num_rounds, round_num, sp, rounds, result,
                   score_calls, sleeps>>
    /\ UNCHANGED outside_battle

\* variant: battle also sleeps after the last round and goes round once more
EndRoundOffByOne(br) ==
    /\ rounds' = Append(rounds, br)
    /\ bpc' = IF round_num < num_rounds THEN "Sleeping" ELSE "Finalize"

\* battle_round returns br; the round loop of battle goes on or ends
EndRound(br) ==
    /\ rounds' = Append(rounds, br)
    /\ bpc' = IF round_num < num_rounds - 1 THEN "Sleeping" ELSE "Finalize"

\* fewer than two valid answers: all scores zero, no scoring
SkipScoring ==
    /\ bpc = "Answer"
    /\ pending = {}
    /\ TooFewValid(responses)
    /\ EndRound([round_number |-> round_num + 1, responses |-> responses,
                 scores |-> ZeroScores(responses)])
    /\ UNCHANGED <<models, num_rounds, round_num, responses, pending, sp, result,
                   score_calls, sleeps, arrivals>>
    /\ UNCHANGED outside_battle

\* enough valid answers: the scoring loops start
BeginScoring ==
    /\ bpc = "Answer"
    /\ pending = {}
    /\ ~TooFewValid(responses)
    /\ sp' = 1
    /\ bpc' = "Scoring"
    /\ UNCHANGED <<models, num_rounds, round_num, responses, pending, rounds, result,
                   score_calls, sleeps, arrivals>>
    /\ UNCHANGED outside_battle

\* variant: a scoring call that errors ends the scoring loops
ScorePairAbort ==
    /\ bpc = "Scoring"
    /\ sp <= Len(Pairs(responses))
    /\ LET i == Pairs(responses)[sp][1]
           j == Pairs(responses)[sp][2]
       IN \E sr \in BattleScoringFor(models) :
            LET res == score_response(sr)
            IN /\ responses' = [responses EXCEPT ![i].scores =
                      Put(@, models[j], [score |-> res.score, comment |-> res.comment])]
               /\ score_calls' = Append(score_calls, <<j, i, sr.error>>)
               /\ sp' = IF sr.error # "" THEN Len(Pairs(responses)) + 1 ELSE sp + 1
    /\ UNCHANGED <<bpc, models, num_rounds, round_num, pending, rounds, result, sleeps,
                   arrivals>>
    /\ UNCHANGED outside_battle

\* score_result = await self.score_response(question, response, scorer_model)
ScorePair ==
    /\ bpc = "Scoring"
    /\ sp <= Len(Pairs(responses))
    /\ LET i == Pairs(responses)[sp][1]
           j == Pairs(responses)[sp][2]
       IN \E sr \in BattleScoringFor(models) :
            LET res == score_response(sr)
            IN /\ responses' = [responses EXCEPT ![i].scores =
                      Put(@, models[j], [score |-> res.score, comment |-> res.comment])]
               /\ score_calls' = Append(score_calls, <<j, i, sr.error>>)
    /\ sp' = sp + 1
    /\ UNCHANGED <<bpc, models, num_rounds, round_num, pending, rounds, result, sleeps,
                   arrivals>>
    /\ UNCHANGED outside_battle

\* the scoring loops are over: round_scores is computed, battle_round returns
Aggregate ==
    /\ bpc = "Scoring"
    /\ sp > Len(Pairs(responses))
    /\ EndRound([round_number |-> round_num + 1, responses |-> responses,
                 scores |-> RoundScores(responses)])
    /\ UNCHANGED <<models, num_rounds, round_num, responses, pending, sp, result,
                   score_calls, sleeps, arrivals>>
    /\ UNCHANGED outside_battle

\* await asyncio.sleep(3) returns and the next battle_round starts
NextRound ==
    /\ bpc = "Sleeping"
    /\ sleeps' = sleeps \cup {round_num + 1}
    /\ round_num' = round_num + 1
    /\ responses' = Outstanding(models)
    /\ pending' = 1..Len(models)
    /\ sp' = 0
    /\ score_calls' = <<>>
    /\ arrivals' = <<>>
    /\ bpc' = "Answer"
    /\ UNCHANGED <<models, num_rounds, rounds, result>>
    /\ UNCHANGED outside_battle

\* rounds[-1] is evaluated for a winner
NeedsLastRound == Winner(models, FinalScores(models, rounds)) # NoWinner

\* final scores, winner and final answer; the BattleResult is returned
Finalize ==
    /\ bpc = "Finalize"
    /\ NeedsLastRound => rounds # <<>>
    /\ LET fs == FinalScores(models, rounds)
           w == Winner(models, fs)
       IN result' = [done |-> TRUE, rounds |-> rounds, final_scores |-> fs,
                     final_winner |-> w,
                     final_answer |-> IF w # NoWinner THEN FinalAnswer(rounds, w) ELSE <<>>]
    /\ bpc' = "Done"
    /\ UNCHANGED <<models, num_rounds, round_num, responses, pending, sp, rounds,
                   score_calls, sleeps, arrivals>>
    /\ UNCHANGED outside_battle

\* rounds[-1] on an empty list: IndexError leaves battle
FinalizeRaise ==
    /\ bpc = "Finalize"
    /\ NeedsLastRound /\ rounds = <<>>
    /\ bpc' = "Raised"
    /\ UNCHANGED <<models, num_rounds, round_num, responses, pending, sp, rounds,
                   result, score_calls, sleeps, arrivals>>
    /\ UNCHANGED outside_battle

BattleNext ==
    \/ StartBattle
    \/ StartBattleFromServer
    \/ ServerRejects
    \/ AnswerArrives
    \/ SkipScoring
    \/ BeginScoring
    \/ ScorePair
    \/ Aggregate
    \/ NextRound
    \/ Finalize
    \/ FinalizeRaise

SpecBattle == Init /\ [][BattleNext]_battle_vars

\* ------------------------------------------------------ score_response alone
ScoreInit ==
    /\ ClientIdle
    /\ BattleIdle
    /\ ServerIdle
    /\ scoring_response \in ScoringResponses
    /\ score_result = NoScore

Pending == score_result = NoScore

\* the scorer call failed
ScoreCallFailed ==
    /\ Pending
    /\ scoring_response.error # ""
    /\ score_result' = score_response(scoring_response)
    /\ UNCHANGED <<outside_score, scoring_response>>

\* json.loads returned a dict whose score converts to float
ScoreStructured ==
    /\ Pending
    /\ scoring_response.error = ""
    /\ ScoreJson(scoring_response.response).kind = "object"
    /\ ScoreJson(scoring_response.response).score # "bad"
    /\ score_result' = score_response(scoring_response)
    /\ UNCHANGED <<outside_score, scoring_response>>

\* json.loads raised JSONDecodeError
ScoreFallback ==
    /\ Pending
    /\ scoring_response.error = ""
    /\ ScoreJson(scoring_response.response).kind = "invalid"
    /\ score_result' = score_response(scoring_response)
    /\ UNCHANGED <<outside_score, scoring_response>>

\* any other exception while reading the parsed value
ScoreParseError ==
    /\ Pending
    /\ scoring_response.error = ""
    /\ \/ ScoreJson(scoring_response.response).kind = "other"
       \/ /\ ScoreJson(scoring_response.response).kind = "object"
          /\ ScoreJson(scoring_response.response).score = "bad"
    /\ score_result' = score_response(scoring_response)
    /\ UNCHANGED <<outside_score, scoring_response>>

ScoreNext ==
    \/ ScoreCallFailed
    \/ ScoreStructured
    \/ ScoreFallback
    \/ ScoreParseError

SpecScore == ScoreInit /\ [][ScoreNext]_score_vars

\* ------------------------------------------------------ tool server executor
MaxRequests == 3        \* most tool requests that reach the executor
MaxWorkers == 1         \* ThreadPoolExecutor(max_workers=1)
QueryTimeout == 30      \* future.result(timeout=30)
BattleTimeout == 120    \* future.result(timeout=120)

TaskKinds == {"query", "battle"}
\* the timeout the caller of a task of this kind waits with
TimeoutOf(kind) == IF kind = "query" THEN QueryTimeout ELSE BattleTimeout
\* what the caller is told when its wait times out
TimeoutMessage(kind) ==
    IF kind = "query" THEN <<"query timed out, check the query conditions">>
    ELSE <<"model battle timed out">>
\* except Exception as e
FailureMessage(kind, e) ==
    IF kind = "query" THEN <<"query execution failed: ", e>>
    ELSE <<"model battle failed: ", e>>
TaskOutcomes == {"", "RuntimeError"}     \* "" : asyncio.run returned a value

Running == {i \in 1..Len(tasks) : tasks[i].state = "running"}
Queued == {i \in 1..Len(tasks) : tasks[i].state = "queued"}

\* execute_query_sync / execute_battle_sync: _executor.submit, then future.result
Submit ==
    /\ Len(tasks) < MaxRequests
    /\ \E kind \in TaskKinds :
         tasks' = Append(tasks, [kind |-> kind, state |-> "queued", caller |-> "waiting",
                                 limit |-> TimeoutOf(kind), told |-> <<>>])
    /\ UNCHANGED outside_server

\* a free worker takes the task at the head of the work queue
WorkerStart ==
    /\ Cardinality(Running) < MaxWorkers
    /\ Queued # {}
    /\ LET i == CHOOSE q \in Queued : \A h \in Queued : q <= h
       IN tasks' = [tasks EXCEPT ![i].state = "running"]
    /\ UNCHANGED outside_server

\* the running task ends; a caller still waiting gets the value or the failure
WorkerFinish ==
    /\ \E i \in Running, e \in TaskOutcomes :
         tasks' = [tasks EXCEPT ![i] =
             [@ EXCEPT !.state = "done",
                       !.caller = IF @ = "waiting" THEN "returned" ELSE @,
                       !.told = IF tasks[i].caller # "waiting" THEN @
                                ELSE IF e = "" THEN <<"result of task ", ToString(i)>>
                                ELSE FailureMessage(tasks[i].kind, e)]]
    /\ UNCHANGED outside_server

\* variant: a wait that times out cancels the task
CallerTimeoutCancels ==
    /\ \E i \in 1..Len(tasks) :
         /\ tasks[i].caller = "waiting"
         /\ tasks[i].state # "done"
         /\ tasks' = [tasks EXCEPT ![i] =
                [@ EXCEPT !.caller = "timed out", !.told = TimeoutMessage(tasks[i].kind),
                          !.state = "cancelled"]]
    /\ UNCHANGED outside_server

\* future.result(timeout=...) raises TimeoutError: the caller gets the timeout
\* message, the future is left alone
CallerTimeout ==
    /\ \E i \in 1..Len(tasks) :
         /\ tasks[i].caller = "waiting"
         /\ tasks[i].state # "done"
         /\ tasks' = [tasks EXCEPT ![i] =
                [@ EXCEPT !.caller = "timed out", !.told = TimeoutMessage(tasks[i].kind)]]
    /\ UNCHANGED outside_server

ServerNext ==
    \/ Submit
    \/ WorkerStart
    \/ WorkerFinish
    \/ CallerTimeout

SpecServer == Init /\ [][ServerNext]_server_vars

\* ================================================================== claims
\* outcomes of the calls that yielded a tool result, in processing order
Successes == SelectSeq(outcomes, LAMBDA o : o.kind = "result")
\* outcomes of the calls that yielded a failure note, in processing order
Failures == SelectSeq(outcomes, LAMBDA o : o.kind = "note")
\* the whole batch has been processed and every call failed (parse or invocation)
AllFailed ==
    /\ tool_calls # <<>>
    /\ Len(outcomes) = Len(tool_calls)
    /\ \A i \in 1..Len(outcomes) : outcomes[i].kind = "note"

\* C1: when every call of a non-empty batch fails, the returned answer is
\* non-empty and is exactly the failure notes, one per call, in call order,
\* separated by newlines; only the first Gateway call was made.
C1_AllFailedAnswer ==
    (pc = "Returned" /\ AllFailed) =>
        /\ answer # <<>>
        /\ Len(answer) = 3 * Len(tool_calls) - 1
        /\ \A i \in 1..Len(tool_calls) :
             /\ answer[3 * i - 2] = "tool call failed: "
             /\ answer[3 * i - 1] = outcomes[i].text[1]
             /\ tool_calls[i].arguments = BadJson => answer[3 * i - 1] = JsonError
             /\ i < Len(tool_calls) => answer[3 * i] = NL
        /\ Len(gateway_calls) = 1

C1_Witness ==
    /\ pc = "Returned"
    /\ AllFailed
    /\ Len(tool_calls) >= 2
    /\ outcomes[1].text # outcomes[2].text

\* the identifier a request is known by: its id, or the placeholder
\* "unknown_id" when it carries none
KnownAs(tc) == IF tc.id = NoId THEN "unknown_id" ELSE tc.id

\* the k-th successful call's message pair sits at positions 2k, 2k+1 and the
\* tool message is keyed by key(request)
PairedBy(key(_)) ==
    /\ Len(messages) = 1 + 2 * Len(Successes)
    /\ \A k \in 1..Len(Successes) :
         LET tc == tool_calls[Successes[k].idx]
             a == messages[2 * k]
             t == messages[2 * k + 1]
         IN /\ a.role = "assistant"
            /\ Len(a.tool_calls) = 1
            /\ a.tool_calls[1].name = tc.name
            /\ a.tool_calls[1].arguments = tc.arguments
            /\ t.role = "tool"
            /\ t.content = Successes[k].text
            /\ t.tool_call_id = key(tc)

FollowUpIssued == Len(gateway_calls) = 2

\* C3 (as stated): when a call succeeded and the follow-up Gateway call fails,
\* by raising or by a non-success status, the answer falls back to the raw
\* list of {tool name, result} pairs of the successful calls.
C3_Original ==
    (pc = "Returned" /\ FollowUpIssued /\ gateway_calls[2].outcome \in {"raise", "non200"}) =>
        final_text[Len(final_text)] = <<"tool calls completed: ">> \o DumpResults(tool_results)

\* atoms of a text
Atoms(t) == {t[q] : q \in 1..Len(t)}

\* C4 (as stated): the transcript carried by the follow-up Gateway call holds a
\* failure entry for every call of the batch that failed.
C4_Original ==
    FollowUpIssued =>
        \A k \in 1..Len(Failures) :
            \E p \in 1..Len(gateway_calls[2].messages) :
                Failures[k].text[1] \in Atoms(gateway_calls[2].messages[p].content)

\* C4 (amended): a failed call is not retried and is reported to the caller, not
\* to the LLM: its failure note is part of the returned answer, and the
\* transcript of the follow-up Gateway call holds only the user message and the
\* message pairs of the successful calls.
C4_FailuresToCaller ==
    /\ FollowUpIssued =>
         LET tr == gateway_calls[2].messages
         IN /\ Len(tr) = 1 + 2 * Len(Successes)
            /\ tr[1].role = "user"
            /\ \A p \in 2..Len(tr) :
                 /\ tr[p].role \in {"assistant", "tool"}
                 /\ \A k \in 1..Len(Failures) : Failures[k].text[1] \notin Atoms(tr[p].content)
    /\ (pc = "Returned" /\ tool_calls # <<>>) =>
         \A k \in 1..Len(Failures) :
             /\ final_text[k] = <<"tool call failed: ", Failures[k].text[1]>>
             /\ answer[3 * k - 2] = "tool call failed: "
             /\ answer[3 * k - 1] = Failures[k].text[1]
    /\ \A k \in 1..Len(Failures) :
         Cardinality({j \in 1..Len(tool_invocations) :
                        tool_invocations[j].idx = Failures[k].idx}) <= 1

C4_Witness ==
    /\ pc = "Returned"
    /\ FollowUpIssued
    /\ \E k \in 1..Len(Failures) :
         \E j \in 1..Len(tool_invocations) : tool_invocations[j].idx = Failures[k].idx

\* C5: a follow-up Gateway call is issued exactly when at least one call of the
\* batch succeeded, exactly once, only after the whole batch has been
\* processed, and it carries the transcript extended by the successful pairs.
C5_OneFollowUp ==
    /\ Len(gateway_calls) <= 2
    /\ FollowUpIssued =>
         /\ tool_calls # <<>>
         /\ Len(outcomes) = Len(tool_calls)
         /\ inflight = 0
         /\ Successes # <<>>
         /\ gateway_calls[2].messages = messages
         /\ Len(gateway_calls[2].messages) = 1 + 2 * Len(Successes)
    /\ (pc = "Returned" /\ tool_calls # <<>>) => (FollowUpIssued <=> Successes # <<>>)

C5_Witness ==
    /\ pc = "Returned"
    /\ FollowUpIssued
    /\ Len(tool_calls) >= 2
    /\ outcomes[1].kind = "result"
    /\ outcomes[2].kind = "note"

\* C6: every request of the first response is dispatched at most once, nothing
\* is dispatched once the follow-up response has arrived (whatever tool calls
\* it requests), and at most two Gateway calls are made per query.
C6_OneRoundTrip ==
    /\ Len(gateway_calls) <= 2
    /\ \A j, k \in 1..Len(tool_invocations) :
         j # k => tool_invocations[j].idx # tool_invocations[k].idx
    /\ \A j \in 1..Len(tool_invocations) :
         /\ tool_invocations[j].idx \in 1..Len(tool_calls)
         /\ tool_invocations[j].name = tool_calls[tool_invocations[j].idx].name
    /\ FollowUpIssued =>
         /\ pc \in {"Returned", "Idle"}
         /\ inflight = 0
         /\ Len(tool_invocations) = Len(Successes) + Cardinality({k \in 1..Len(Failures) :
                                        Failures[k].text[1] \in ToolErrors})

C6_Witness ==
    /\ pc = "Returned"
    /\ followup_calls # <<>>
    /\ Len(tool_invocations) >= 2
    /\ Failures # <<>>

\* the code can parse the arguments of call i and recognises its shape
Dispatchable(tc) == tc.shape \in {"attr", "dict"} /\ tc.arguments # BadJson

\* C7: whatever calls of the batch fail, every call of the batch is processed in
\* order, every call whose arguments parse is dispatched, and tool_results
\* holds exactly what the successful calls returned.
C7_Isolation ==
    (pc = "Returned" /\ tool_calls # <<>>) =>
        /\ Len(outcomes) = Len(tool_calls)
        /\ \A i \in 1..Len(outcomes) : outcomes[i].idx = i
        /\ \A i \in 1..Len(tool_calls) :
             Dispatchable(tool_calls[i]) <=>
                 \E j \in 1..Len(tool_invocations) : tool_invocations[j].idx = i
        /\ tool_results = [k \in 1..Len(Successes) |->
                             [call |-> tool_calls[Successes[k].idx].name,
                              result |-> Successes[k].text]]

C7_Witness ==
    /\ pc = "Returned"
    /\ Len(tool_calls) >= 2
    /\ outcomes[1].kind = "note"
    /\ outcomes[2].kind = "result"

\* C8 (as stated): every query ends with an answer returned by process_query,
\* also when listTools fails or a Gateway call raises.
C8_Original == pc # "Raised"

\* C8 (amended): process_query returns an answer unless listTools fails or the
\* first Gateway call raises; in those two cases the exception leaves
\* process_query and chat_loop prints the failure description.  A failing tool
\* call or follow-up Gateway call never prevents a returned answer, and the
\* returned text is empty only when the LLM's own content is empty.
C8_AnswerOrPropagate ==
    /\ raised # "" =>
         /\ pc \in {"Raised", "Idle"}
         /\ answer = <<>>
         /\ \/ raised = "TransportError" /\ gateway_calls = <<>>
            \/ /\ raised = "ApiException"
               /\ Len(gateway_calls) = 1
               /\ gateway_calls[1].outcome = "raise"
    /\ pc = "Returned" =>
         /\ raised = ""
         /\ answer = <<>> =>
              /\ gateway_calls[Len(gateway_calls)].outcome = "200"
              /\ Failures = <<>>
    /\ (pc = "Idle" /\ messages # <<>>) =>
         /\ printed # <<>>
         /\ raised # "" => printed = <<NL, "error: ", raised>>
         /\ raised = "" => printed = <<NL>> \o answer

C8_Witness ==
    /\ pc = "Idle"
    /\ raised = "ApiException"
    /\ answer = <<>>
    /\ printed = <<NL, "error: ", "ApiException">>

\* C9: a non-success status of the first Gateway call ends the query with the
\* error string carrying the upstream message; no tool is invoked, the
\* transcript stays the single user message and no second call is made.
C9_FirstNon200 ==
    (gateway_calls # <<>> /\ gateway_calls[1].outcome = "non200") =>
        /\ pc \in {"Returned", "Idle"}
        /\ raised = ""
        /\ answer = <<"API call failed: ", gateway_calls[1].message>>
        /\ tool_invocations = <<>>
        /\ Len(messages) = 1
        /\ messages[1].role = "user"
        /\ Len(gateway_calls) = 1

C9_Witness ==
    /\ pc = "Returned"
    /\ gateway_calls # <<>>
    /\ gateway_calls[1].outcome = "non200"
    /\ gateway_calls[1].message = "invalid api key"

\* failure notes held by final_text
NotesIn(ft) == {k \in 1..Len(ft) : ft[k] # <<>> /\ ft[k][1] = "tool call failed: "}

\* C10 (as stated): every request of the batch yields exactly one outcome, a
\* recorded tool result or a recorded failure note.
C10_Original ==
    (pc = "Returned" /\ tool_calls # <<>>) =>
        /\ \A i \in 1..Len(tool_calls) :
             Cardinality({j \in 1..Len(outcomes) :
                 outcomes[j].idx = i /\ outcomes[j].kind \in {"result", "note"}}) = 1
        /\ Len(tool_results) + Cardinality(NotesIn(final_text)) = Len(tool_calls)

\* ------------------------------------------------------------ battle claims
\* positions of the error-free responses of a response list
ErrorFree(resps) == {i \in 1..Len(resps) : resps[i].error = ""}
\* the model at position i occurs once in the list
Single(resps, i) == \A j \in 1..Len(resps) : j # i => resps[j].model_name # resps[i].model_name
\* battle_round has returned for the round whose responses are in `responses`
RoundOver == bpc \in {"Sleeping", "Finalize", "Done"} /\ rounds # <<>>

\* C11: in a round with fewer than two error-free answers every round score is
\* 0, no response holds a score and no scoring call is issued.
C11_NoScoringWhenTooFew ==
    /\ \A r \in 1..Len(rounds) :
         Cardinality(ErrorFree(rounds[r].responses)) < 2 =>
             /\ DOMAIN rounds[r].scores = NamesOf(rounds[r].responses)
             /\ \A n \in DOMAIN rounds[r].scores : rounds[r].scores[n] = 0
             /\ \A i \in 1..Len(rounds[r].responses) :
                  DOMAIN rounds[r].responses[i].scores = {}
    /\ (bpc \in {"Answer", "Scoring", "Sleeping", "Finalize", "Done"} /\ pending = {}
        /\ Cardinality(ErrorFree(responses)) < 2) =>
             /\ score_calls = <<>>
             /\ bpc # "Scoring"

C11_Witness ==
    /\ bpc = "Done"
    /\ Len(models) = 3
    /\ Len(rounds) = 2
    /\ Cardinality(ErrorFree(rounds[1].responses)) = 3
    /\ Cardinality(ErrorFree(rounds[2].responses)) = 1

\* mean of the scores that the models at positions js gave response resp
MeanFrom(resps, i, js) ==
    SumScores(resps[i].scores, {resps[j].model_name : j \in js}) \div Cardinality(js)

\* every error-free subject of a round with at least two error-free answers
\* has, as round score, the mean of the scores given by scorers(responses, i)
ScoredBy(scorers(_, _)) ==
    \A r \in 1..Len(rounds) :
        LET resps == rounds[r].responses
        IN Cardinality(ErrorFree(resps)) >= 2 =>
             \A i \in ErrorFree(resps) :
                 Single(resps, i) =>
                     rounds[r].scores[resps[i].model_name] = MeanFrom(resps, i, scorers(resps, i))

\* C12 (as stated): an errored model is excluded as scorer, the round score of an
\* error-free subject is the mean of the scores of the other error-free models.
C12_Original == ScoredBy(LAMBDA resps, i : ErrorFree(resps) \ {i})

\* C12 (amended): an errored model still scores; the round score of an
\* error-free subject is the mean of the scores given by all other models of
\* the list, errored or not, and its scores mapping has an entry for each.
C12_AllOthersScore ==
    /\ \A r \in 1..Len(rounds) :
         LET resps == rounds[r].responses
         IN Cardinality(ErrorFree(resps)) >= 2 =>
              \A i \in ErrorFree(resps) :
                  DOMAIN resps[i].scores = {resps[j].model_name : j \in (1..Len(resps)) \ {i}}
    /\ ScoredBy(LAMBDA resps, i : (1..Len(resps)) \ {i})

C12_Witness ==
    /\ RoundOver
    /\ Len(models) = 3
    /\ responses[2].error # ""
    /\ ErrorFree(responses) = {1, 3}
    /\ responses[1].scores[models[2]].score = 840
    /\ responses[1].scores[models[3]].score = 0
    /\ rounds[Len(rounds)].scores[models[1]] = 420

\* C13: with at least two error-free answers, an error-free subject's round
\* score is the arithmetic mean of the scores held by its scores mapping, which
\* are the scores of the scorers that evaluated it, and an errored model's round
\* score is 0.
C13_MeanOfReceived ==
    /\ \A r \in 1..Len(rounds) :
         LET resps == rounds[r].responses
         IN Cardinality(ErrorFree(resps)) >= 2 =>
              \A i \in 1..Len(resps) :
                  Single(resps, i) =>
                      IF resps[i].error = ""
                      THEN /\ DOMAIN resps[i].scores # {}
                           /\ rounds[r].scores[resps[i].model_name] * Cardinality(DOMAIN resps[i].scores)
                                = SumScores(resps[i].scores, DOMAIN resps[i].scores)
                      ELSE /\ rounds[r].scores[resps[i].model_name] = 0
                           /\ DOMAIN resps[i].scores = {}
    /\ RoundOver =>
         \A i \in 1..Len(responses) :
             DOMAIN responses[i].scores =
                 {models[score_calls[k][1]] : k \in {h \in 1..Len(score_calls) : score_calls[h][2] = i}}

C13_Witness ==
    /\ RoundOver
    /\ Len(models) = 3
    /\ ErrorFree(responses) = {1, 2, 3}
    /\ responses[1].scores[models[2]].score = 840
    /\ responses[1].scores[models[3]].score = 0
    /\ rounds[Len(rounds)].scores[models[1]] = 420
    /\ rounds[Len(rounds)].scores[models[2]] = 840

\* C14: the final score of every model of the list is the sum of its round
\* scores over all rounds played, and num_rounds rounds were played.
C14_FinalIsSum ==
    bpc = "Done" =>
        /\ Len(result.rounds) = num_rounds
        /\ DOMAIN result.final_scores = {models[i] : i \in 1..Len(models)}
        /\ \A n \in DOMAIN result.final_scores :
             result.final_scores[n] =
                 SumSeq([r \in 1..Len(result.rounds) |-> result.rounds[r].scores[n]])

C14_Witness ==
    /\ bpc = "Done"
    /\ num_rounds = 2
    /\ \E n \in DOMAIN result.final_scores :
         /\ result.rounds[1].scores[n] = 420
         /\ result.rounds[2].scores[n] = 840
         /\ result.final_scores[n] = 1260

\* C15: the winner has the maximum final score and is the first model of the
\* supplied list that reaches it.
C15_FirstMaximum ==
    (bpc = "Done" /\ models # <<>>) =>
        \E i \in 1..Len(models) :
            /\ result.final_winner = models[i]
            /\ \A j \in 1..Len(models) :
                 result.final_scores[models[j]] <= result.final_scores[models[i]]
            /\ \A j \in 1..(i - 1) :
                 result.final_scores[models[j]] < result.final_scores[models[i]]

C15_Witness ==
    /\ bpc = "Done"
    /\ Len(models) = 3
    /\ result.final_scores[models[1]] < result.final_scores[models[2]]
    /\ result.final_scores[models[2]] = result.final_scores[models[3]]
    /\ result.final_winner = models[2]

\* C16: the final answer is the text of the winner's error-free response of the
\* last round, and empty when the winner has none there, whatever it answered
\* in earlier rounds.
C16_LastRoundAnswer ==
    (bpc = "Done" /\ result.final_winner # NoWinner) =>
        LET last == result.rounds[Len(result.rounds)].responses
            own == {i \in 1..Len(last) :
                      last[i].model_name = result.final_winner /\ last[i].error = ""}
        IN IF own = {}
           THEN result.final_answer = <<>>
           ELSE result.final_answer =
                    last[CHOOSE i \in own : \A j \in own : i <= j].response

C16_Witness ==
    /\ bpc = "Done"
    /\ Len(result.rounds) = 2
    /\ \E i \in 1..Len(models) :
         /\ models[i] = result.final_winner
         /\ result.rounds[1].responses[i].error = ""
         /\ result.rounds[2].responses[i].error = ""
         /\ result.final_answer = result.rounds[2].responses[i].response
         /\ result.final_answer # result.rounds[1].responses[i].response

\* C17 (as stated): battle always ends with a BattleResult, for any model list
\* and round count; when every answer call errors in every round all final
\* scores are 0 and the final answer is empty.
C17_Original ==
    /\ bpc # "Raised"
    /\ (bpc = "Done" /\ \A r \in 1..Len(result.rounds) :
                            ErrorFree(result.rounds[r].responses) = {}) =>
         /\ \A n \in DOMAIN result.final_scores : result.final_scores[n] = 0
         /\ result.final_answer = <<>>

\* C18 (as stated): no response's scores mapping holds a score given by the
\* model that gave the answer.
C18_Original ==
    /\ \A i \in 1..Len(responses) : responses[i].model_name \notin DOMAIN responses[i].scores
    /\ \A r \in 1..Len(rounds) :
         \A i \in 1..Len(rounds[r].responses) :
             rounds[r].responses[i].model_name \notin DOMAIN rounds[r].responses[i].scores

\* ---------------------------------------------------- score_response claims
\* the reply is a structured payload: json.loads gives an object
Structured(raw) == ScoreJson(raw).kind = "object"

\* C19 (as stated): for a reply that is not a structured payload the score is
\* the first decimal number of the raw text, and 0 when it has none.
C19_Original ==
    (score_result.done /\ scoring_response.error = ""
     /\ ~Structured(scoring_response.response)) =>
        score_result.score =
            (IF ReSearch(scoring_response.response).found
             THEN Float(ReSearch(scoring_response.response)) ELSE 0)

\* score_response took the fallback for an unstructured reply
TookFallback ==
    /\ score_result.done
    /\ scoring_response.error = ""
    /\ ScoreJson(scoring_response.response).kind = "invalid"

DuePairs(resps) ==
    {<<j, i>> : j \in 1..Len(resps), i \in ErrorFree(resps)} \ {<<i, i>> : i \in 1..Len(resps)}

\* C21: a scoring call that errors leaves {score 0, comment with the failure
\* reason} for its (scorer, subject) pair and the round goes on: every other
\* pair is still scored, one call each, and the round's scores are computed.
C21_ScoringErrorIsolated ==
    /\ \A k \in 1..Len(score_calls) :
         LET j == score_calls[k][1]
             i == score_calls[k][2]
             e == score_calls[k][3]
         IN (e # "" /\ Single(responses, j)) =>
                /\ models[j] \in DOMAIN responses[i].scores
                /\ responses[i].scores[models[j]].score = 0
                /\ responses[i].scores[models[j]].comment = <<"scoring failed: ", e>>
    /\ (RoundOver /\ Cardinality(ErrorFree(responses)) >= 2) =>
         /\ {<<score_calls[k][1], score_calls[k][2]>> : k \in 1..Len(score_calls)}
                = DuePairs(responses)
         /\ Len(score_calls) = Cardinality(DuePairs(responses))
         /\ DOMAIN rounds[Len(rounds)].scores = NamesOf(responses)

C21_Witness ==
    /\ RoundOver
    /\ Len(models) = 3
    /\ Len(score_calls) = 6
    /\ score_calls[1][3] # ""
    /\ score_calls[6][3] = ""
    /\ rounds[Len(rounds)].scores[models[1]] = 420

\* C22: in the answer phase a call that fails (non-success status or exception)
\* leaves its model a response with the error set and an empty answer, a call
\* that succeeds leaves the model's own answer, whatever the other calls did,
\* and every response sits at the position of its model in the list, in
\* whatever order the calls return.
C22_AnswerIsolation ==
    /\ Len(arrivals) <= Len(responses)
    /\ \A k \in 1..Len(arrivals) :
         LET i == arrivals[k][1]
             o == arrivals[k][2]
         IN /\ i \notin pending
            /\ \A h \in 1..Len(arrivals) : h # k => arrivals[h][1] # i
            /\ responses[i].model_name = models[i]
            /\ IF o = "ok"
               THEN /\ responses[i].error = ""
                    /\ responses[i].response # <<>>
                    /\ responses[i].response[1] = models[i]
               ELSE /\ responses[i].error # ""
                    /\ responses[i].response = <<>>
    /\ \A i \in pending :
         /\ responses[i].model_name = models[i]
         /\ responses[i].error = "" /\ responses[i].response = <<>>

C22_Witness ==
    /\ bpc = "Answer"
    /\ pending = {}
    /\ arrivals = << <<3, "raise">>, <<1, "ok">>, <<2, "non200">> >>
    /\ responses[1].error = ""
    /\ responses[1].response # <<>>

\* C26: rounds run one after the other: while round r + 1 is answered or scored
\* the rounds 1..r are finished with their scores; the result holds num_rounds
\* rounds numbered 1..num_rounds (2 when the caller gives none); battle sleeps
\* once after each round but the last, and never after the last.
C26_RoundsInSequence ==
    /\ DefaultRounds = 2
    /\ bpc \in {"Answer", "Scoring"} => (Len(rounds) = round_num /\ round_num < num_rounds)
    /\ bpc \in {"Sleeping", "Finalize", "Done"} /\ rounds # <<>> => Len(rounds) = round_num + 1
    /\ \A k \in 1..Len(rounds) :
         /\ rounds[k].round_number = k
         /\ DOMAIN rounds[k].scores = NamesOf(rounds[k].responses)
    /\ sleeps = 1..round_num
    /\ \A k \in sleeps : k < num_rounds
    /\ bpc = "Done" =>
         /\ Len(result.rounds) = num_rounds
         /\ \A k \in 1..num_rounds : result.rounds[k].round_number = k
         /\ sleeps = 1..(num_rounds - 1)

C26_Witness ==
    /\ bpc = "Done"
    /\ num_rounds = DefaultRounds
    /\ Len(models) = 2
    /\ Len(result.rounds) = 2
    /\ sleeps = {1}

\* ------------------------------------------------------------ server claims
\* C30: queries and battles share one worker: at most one task runs at a time,
\* tasks start in submission order, a caller waits 30 s for a query and 120 s
\* for a battle and is then told of the timeout, the task is not cancelled, so
\* no later task starts until the task of a timed-out caller has finished.
C30_OneSharedWorker ==
    /\ Cardinality(Running) <= 1
    /\ \A i \in 1..Len(tasks) :
         /\ tasks[i].state \in {"queued", "running", "done"}
         /\ tasks[i].limit = (IF tasks[i].kind = "query" THEN 30 ELSE 120)
         /\ tasks[i].caller = "timed out" =>
                tasks[i].told = (IF tasks[i].kind = "query"
                                 THEN <<"query timed out, check the query conditions">>
                                 ELSE <<"model battle timed out">>)
         /\ \A h \in (i + 1)..Len(tasks) :
                tasks[h].state # "queued" => tasks[i].state = "done"

C30_Witness ==
    /\ Len(tasks) = 3
    /\ tasks[1].kind = "battle" /\ tasks[1].caller = "timed out" /\ tasks[1].state = "running"
    /\ tasks[2].kind = "query" /\ tasks[2].caller = "timed out" /\ tasks[2].state = "queued"
    /\ tasks[3].kind = "query" /\ tasks[3].caller = "waiting" /\ tasks[3].state = "queued"

\* ------------------------------------------------- client claims, continued
\* two requests with the same tool name, arguments and identifier
SameRequest(a, b) == a.name = b.name /\ a.arguments = b.arguments /\ a.id = b.id
\* the request an assistant message carries, whatever its shape
Carried(m) == [name |-> m.tool_calls[1].name, arguments |-> m.tool_calls[1].arguments,
               id |-> m.tool_calls[1].id]
\* the call_tool issued for the request at position i of the batch
InvocationOf(i) ==
    {[name |-> tool_invocations[n].name, args |-> tool_invocations[n].args] :
        n \in {h \in 1..Len(tool_invocations) : tool_invocations[h].idx = i}}

\* C23 (as stated): two requests of a batch with the same tool name, arguments
\* and identifier are treated alike whichever shape they came in: the same tool
\* invocation, and for the same tool result the same assistant message and
\* tool message in the transcript.
C23_Original ==
    Len(messages) = 1 + 2 * Len(Successes) =>
        \A k, l \in 1..Len(Successes) :
            LET a == tool_calls[Successes[k].idx]
                b == tool_calls[Successes[l].idx]
            IN (SameRequest(a, b) /\ Successes[k].text = Successes[l].text) =>
                   /\ InvocationOf(Successes[k].idx) = InvocationOf(Successes[l].idx)
                   /\ messages[2 * k + 1] = messages[2 * l + 1]
                   /\ Carried(messages[2 * k]) = Carried(messages[2 * l])

\* the first response was a plain answer and process_query has returned
PlainAnswered ==
    /\ pc = "Returned"
    /\ tool_calls = <<>>
    /\ gateway_calls # <<>>
    /\ gateway_calls[1].outcome = "200"

\* C24: after a plain first response the answer is that text, no tool was
\* invoked, the transcript is still the single user message and the Gateway
\* was called once.
C24_PlainAnswerFrame ==
    PlainAnswered =>
        /\ Len(final_text) = 1
        /\ answer = final_text[1]
        /\ answer \in {IF c.isList THEN JoinNL(c.items) ELSE c.items[1] : c \in Contents}
        /\ tool_invocations = <<>>
        /\ outcomes = <<>>
        /\ tool_results = <<>>
        /\ messages = <<UserMessage(query)>>
        /\ Len(gateway_calls) = 1
        /\ gateway_calls[1].messages = <<UserMessage(query)>>

C24_Witness ==
    /\ PlainAnswered
    /\ answer = <<"answer">>
    /\ Len(gateway_calls) = 1

\* C25 (state part): a call_tool is in flight only while process_query awaits
\* it, every earlier call_tool has ended before the next is issued, calls are
\* processed in request order and the message pairs of the successful calls
\* stand in the transcript in that order.
C25_OneAtATime ==
    /\ inflight # 0 => (pc = "AwaitTool" /\ inflight = idx)
    /\ \A n \in 1..Len(tool_invocations) :
         /\ \A h \in 1..(n - 1) : tool_invocations[h].idx < tool_invocations[n].idx
         /\ (n < Len(tool_invocations) \/ inflight = 0) =>
                \E o \in 1..Len(outcomes) :
                    /\ outcomes[o].idx = tool_invocations[n].idx
                    /\ outcomes[o].kind \in {"result", "note"}
    /\ \A o \in 1..Len(outcomes) : \A h \in 1..(o - 1) : outcomes[h].idx < outcomes[o].idx
    /\ messages # <<>> =>
         /\ Len(messages) = 1 + 2 * Len(Successes)
         /\ \A k \in 1..Len(Successes) :
              /\ messages[2 * k].role = "assistant"
              /\ Carried(messages[2 * k]).name = tool_calls[Successes[k].idx].name
              /\ Carried(messages[2 * k]).arguments = tool_calls[Successes[k].idx].arguments
              /\ messages[2 * k + 1].role = "tool"
              /\ messages[2 * k + 1].content = Successes[k].text

\* C25: tool calls are issued one at a time in request order and the transcript
\* of a query only grows at its end.
C25_SequentialAppendOnly ==
    /\ []C25_OneAtATime
    /\ [][(pc # "Idle" /\ pc' # "Exited") =>
            /\ Len(messages') >= Len(messages)
            /\ SubSeq(messages', 1, Len(messages)) = messages]_vars

C25_Witness ==
    /\ pc = "AwaitTool"
    /\ inflight = 2
    /\ Len(tool_invocations) = 2
    /\ Len(messages) = 3
    /\ Len(Successes) = 1

\* C27: list_tools and call_tool are issued only on a session whose initialize
\* has returned, and the chat loop starts only after that.
C27_HandshakeFirst ==
    /\ pc \in {"ConnectList", "GetTools"} => session = "Initialized"
    /\ (inflight # 0 \/ tool_invocations # <<>>) => session = "Initialized"
    /\ available_tools # {} => session = "Initialized"
    /\ pc \in {"Idle", "Query", "Batch", "AwaitTool", "Returned", "Raised"} =>
           session = "Initialized"
    /\ pc \in {"Main", "Initialize"} => session \in {"None", "Created"}

C27_Witness ==
    /\ session = "Initialized"
    /\ pc = "AwaitTool"
    /\ inflight = 1
    /\ available_tools # {}

\* process_query is running, or has just ended, for the current query
InQuery == pc \in {"GetTools", "Query", "Batch", "AwaitTool", "Returned", "Raised"}

\* C28: process_query starts from the single user message of its query and
\* nothing else; the transcript, every Gateway call, the tool results and the
\* answer parts hold the current query's message and outcomes only, and the
\* tools sent are the snapshot fetched for this query.
C28_Stateless ==
    /\ pc = "GetTools" =>
         /\ messages = <<UserMessage(query)>>
         /\ available_tools = {}
         /\ tool_results = <<>> /\ final_text = <<>> /\ answer = <<>>
         /\ gateway_calls = <<>> /\ tool_invocations = <<>> /\ outcomes = <<>>
    /\ InQuery =>
         /\ query \in Queries
         /\ messages[1] = UserMessage(query)
         /\ \A p \in 2..Len(messages) : messages[p].role # "user"
         /\ Len(messages) = 1 + 2 * Len(Successes)
         /\ Len(tool_results) = Len(Successes)
         /\ \A k \in 1..Len(tool_results) : tool_results[k].result = Successes[k].text
         /\ Len(final_text) <= Len(Failures) + 1
         /\ \A g \in 1..Len(gateway_calls) :
              /\ gateway_calls[g].tools = available_tools
              /\ Len(gateway_calls[g].messages) <= Len(messages)
              /\ gateway_calls[g].messages = SubSeq(messages, 1, Len(gateway_calls[g].messages))

C28_Witness ==
    /\ query = "q2"
    /\ pc = "Returned"
    /\ Len(gateway_calls) = 2
    /\ Failures # <<>>
    /\ Len(messages) = 3

\* C29: with failed and successful calls in one batch the answer is the failure
\* notes in call order, then the outcome of the one follow-up Gateway call.
C29_NotesThenFollowUp ==
    (pc = "Returned" /\ Successes # <<>> /\ Failures # <<>>) =>
        LET last == final_text[Len(final_text)]
        IN /\ Len(gateway_calls) = 2
           /\ Len(final_text) = Len(Failures) + 1
           /\ \A k \in 1..Len(Failures) :
                /\ final_text[k] = <<"tool call failed: ", Failures[k].text[1]>>
                /\ \A h \in 1..(k - 1) : Failures[h].idx < Failures[k].idx
           /\ last = <<>> \/ last[1] # "tool call failed: "
           /\ gateway_calls[2].outcome = "non200" => last = <<"failed to get final response">>
           /\ gateway_calls[2].outcome = "raise" => last[1] = "tool calls completed: "
           /\ gateway_calls[2].outcome = "200" =>
                last \in {IF c.isList THEN JoinNL(c.items) ELSE c.items[1] : c \in Contents}
           /\ answer = JoinNL(final_text)

C29_Witness ==
    /\ pc = "Returned"
    /\ Len(tool_calls) = 2
    /\ Len(Failures) = 1 /\ Failures[1].idx = 1
    /\ Len(Successes) = 1
    /\ gateway_calls[2].outcome = "200"
    /\ final_text[2] = <<"answer">>

\* C31 (as stated): every round score lies in 0..100 points and every final
\* score in 0..100 points times the number of rounds, whatever the scorers
\* reply.
C31_Original ==
    /\ \A r \in 1..Len(rounds) :
         \A n \in DOMAIN rounds[r].scores :
             rounds[r].scores[n] >= 0 /\ rounds[r].scores[n] <= 1000
    /\ bpc = "Done" =>
         \A n \in DOMAIN result.final_scores :
             /\ result.final_scores[n] >= 0
             /\ result.final_scores[n] <= 1000 * Len(result.rounds)
====
